---- MODULE Spec2Model ----
(***************************************************************************)
(* Model of ib_intraday_15m_strategy_auto_pos.py: the acquisition          *)
(* orchestrator (Intraday15mStrategyAutoPosApp), the single-timeframe      *)
(* classifier (generate_bcd_signal) and the helpers they call.             *)
(*                                                                         *)
(* Prices are integers in units of 1e-4 (the precision of round(x, 4)),    *)
(* so 10000 is a price of 1.00;                                            *)
(* percentages are integers in units of 0.01 (the precision of             *)
(* round(x, 2)).  A Python Optional is <<>> (None) or <<v>>.  A Python     *)
(* dict is a function whose DOMAIN is the set of keys present.             *)
(***************************************************************************)
EXTENDS Integers, Sequences, FiniteSets, TLC

\* ---------------------------------------------------------------- bounds
\* Bars the provider delivers in one run (historicalData callbacks).
MaxBarEvents == 5
\* Invocations of _process_*_symbol recorded per symbol.
MaxProcessCalls == 2

\* ---------------------------------------------------------------- values
None == <<>>
Some(x) == <<x>>
IsNone(o) == o = <<>>
Val(o) == o[1]

\* The symbols the provider may report, in sorted() order.
AllSymbols == <<"A", "B">>
Symbols == {AllSymbols[i] : i \in 1..Len(AllSymbols)}
Modes == {"intraday", "daily"}

\* The position callbacks the provider may deliver: a stock position with a
\* positive average cost, one with average cost 0, a closed position and an
\* option position.
PositionReports ==
    { [secType |-> "STK", symbol |-> "A", position |-> 10, avgCost |-> 10000],
      [secType |-> "STK", symbol |-> "B", position |-> 10, avgCost |-> 0],
      [secType |-> "STK", symbol |-> "B", position |-> 0, avgCost |-> 10000],
      [secType |-> "OPT", symbol |-> "A", position |-> 10, avgCost |-> 500] }

\* Bars the provider delivers: date (YYYYMMDD), close/high/low (1e-4), volume.
ProviderBars ==
    { [date |-> 20240102, close |-> 11000, high |-> 11100, low |-> 10900, volume |-> 100] }

\* Error codes the provider reports: 200 (no security definition) and 162
\* (historical data service error).
ErrorCodes == {200, 162}

req_id_base == 3000
\* The last digit of the tokens request_next_symbol_history issues in a mode.
TokenDigits(m) == IF m = "intraday" THEN {1, 2} ELSE {9}
\* Correlation tokens a callback may carry in a run of mode m: every token the
\* orchestrator can issue in that mode, and one it never issues.
ReqIds(m) ==
    {req_id_base + i * 10 + k : i \in 0..(Len(AllSymbols) - 1), k \in TokenDigits(m)} \cup {0}

\* ---------------------------------------------------------------- helpers
Abs(x) == IF x < 0 THEN -x ELSE x

\* floor(n / d) for d > 0 and any integer n.
FloorDiv(n, d) == IF n >= 0 THEN n \div d ELSE -((-n + d - 1) \div d)

\* round(n / d) as Python's round(): to nearest, ties to even.  d > 0.
\* Python rounds the binary float nearest to the quotient, so where the exact
\* quotient is a decimal tie (1.055 to two places) the float may lie on either
\* side of it and round() may give either neighbour; RoundDiv gives the even one.
RoundDiv(n, d) ==
    LET q == FloorDiv(n, d)
        r == n - q * d
    IN  IF 2 * r < d THEN q
        ELSE IF 2 * r > d THEN q + 1
        ELSE IF q % 2 = 0 THEN q ELSE q + 1

RECURSIVE SumSeq(_)
SumSeq(s) == IF s = <<>> THEN 0 ELSE s[1] + SumSeq(Tail(s))

\* s[-n:] of Python, for n >= 1.
LastN(s, n) == IF Len(s) > n THEN SubSeq(s, Len(s) - n + 1, Len(s)) ELSE s

\* dict.get(key, default)
Get(d, k, default) == IF k \in DOMAIN d THEN d[k] ELSE default

\* d[k] = v on a dict
Put(d, k, v) == [x \in DOMAIN d \cup {k} |-> IF x = k THEN v ELSE d[x]]

\* sorted(d.keys()) for keys among AllSymbols
SortedKeys(d) == SelectSeq(AllSymbols, LAMBDA s : s \in DOMAIN d)

\* ---------------------------------------------------------------- classifier
MinBars == 5
WindowCap == 25
MaWindowCap == 20
\* up_threshold = down_threshold = 0.002, as parts per thousand
ThresholdPermille == 2
\* vol_mult = 1.3, in tenths
VolMultTenths == 13

Min(a, b) == IF a < b THEN a ELSE b

\* if len(bars) < 5, with a guard that lets shorter series through
InsufficientBars_Two(bars) == Len(bars) < 2

\* if len(bars) < 5
InsufficientBars(bars) == Len(bars) < MinBars

\* volume_heavy = last_vol >= vol20 * vol_mult, with vol20 = sum_vol / ma_window
volume_heavy(last_vol, sum_vol, ma_window) ==
    last_vol * 10 * ma_window >= sum_vol * VolMultTenths

\* generate_bcd_signal(symbol, bars): <<grade, info>>.  The comparisons use the
\* unrounded averages sum/ma_window, so they are cross-multiplied here.
generate_bcd_signal(symbol, bars) ==
    IF InsufficientBars(bars)
    THEN <<"C", [reason |-> "too few bars"]>>
    ELSE
    LET last_n == LastN(bars, WindowCap)
        closes == [i \in 1..Len(last_n) |-> last_n[i].close]
        vols == [i \in 1..Len(last_n) |-> last_n[i].volume]
    IN  IF Len(closes) < 3
        THEN <<"C", [reason |-> "fewer than 3 valid bars"]>>
        ELSE
        LET ma_window == Min(MaWindowCap, Len(closes))
            sum_close == SumSeq(LastN(closes, ma_window))
            sum_vol == SumSeq(LastN(vols, ma_window))
            last_bar == last_n[Len(last_n)]
            prev_bar == last_n[Len(last_n) - 1]
            last_close == last_bar.close
            last_vol == last_bar.volume
            prev_close == prev_bar.close
            info == [symbol |-> symbol,
                     last_time |-> last_bar.date,
                     last_close |-> last_close,
                     last_vol |-> last_vol,
                     ma20 |-> RoundDiv(sum_close, ma_window),
                     vol20 |-> sum_vol \div ma_window]
            price_above_ma ==
                last_close * 1000 * ma_window > sum_close * (1000 + ThresholdPermille)
            price_below_ma ==
                last_close * 1000 * ma_window < sum_close * (1000 - ThresholdPermille)
            price_up == last_close > prev_close
            price_down == last_close < prev_close
            heavy == volume_heavy(last_vol, sum_vol, ma_window)
        IN  IF price_above_ma /\ price_up /\ heavy
            THEN <<"B", info @@ [reason |-> "above MA20, rising on heavy volume"]>>
            ELSE IF price_below_ma /\ price_down /\ heavy
            THEN <<"D", info @@ [reason |-> "below MA20, falling on heavy volume"]>>
            ELSE <<"C", info @@ [reason |-> "no breakout or breakdown on volume"]>>

\* calc_pnl_pct(last_close, cost), already rounded to 2 decimals as both of
\* its users do (round(pnl_pct, 2)): Optional, in units of 0.01 percent.
calc_pnl_pct(last_close, cost) ==
    IF IsNone(cost) \/ Val(cost) <= 0
    THEN None
    ELSE Some(RoundDiv((last_close - Val(cost)) * 10000, Val(cost)))

\* decide_action(signal, pnl_pct): the advice, named by its case.
decide_action(signal, pnl_pct) ==
    IF IsNone(pnl_pct)
    THEN IF signal = "B" THEN "B: add or hold"
         ELSE IF signal = "D" THEN "D: reduce or tighten stop"
         ELSE "C: watch"
    ELSE
    LET p == Val(pnl_pct)
    IN  IF signal = "B"
        THEN IF p <= -1500 THEN "B: deep loss, reduce into the bounce"
             ELSE IF p <= -500 THEN "B: still losing, hold"
             ELSE IF p < 1000 THEN "B: small pnl, add a little or hold"
             ELSE "B: large gain, take profit in parts"
        ELSE IF signal = "D"
        THEN IF p <= -1000 THEN "D: large loss, reduce or stop out"
             ELSE IF p < 0 THEN "D: light loss, tighten"
             ELSE IF p < 1500 THEN "D: gain, lock some profit"
             ELSE "D: high gain, take profit in parts"
        ELSE IF Abs(p) < 500 THEN "C: small pnl, watch"
             ELSE IF p <= -500 THEN "C: losing, observe"
             ELSE "C: gain, take profit by plan or hold"

\* get_recent_high_low(bars, max_lookback): <<low, high>> as Optionals.
MaxLookback == 80

SeqMin(s) == CHOOSE m \in {s[i] : i \in 1..Len(s)} : \A i \in 1..Len(s) : m <= s[i]
SeqMax(s) == CHOOSE m \in {s[i] : i \in 1..Len(s)} : \A i \in 1..Len(s) : m >= s[i]

get_recent_high_low(bars, max_lookback) ==
    IF bars = <<>>
    THEN <<None, None>>
    ELSE LET sub == LastN(bars, max_lookback)
             lows == [i \in 1..Len(sub) |-> sub[i].low]
             highs == [i \in 1..Len(sub) |-> sub[i].high]
         IN  <<Some(SeqMin(lows)), Some(SeqMax(highs))>>

\* calc_today_vwap_from_15m(bars_15): Optional price, rounded to 4 decimals.
\* A bar's date field holds the YYYYMMDD prefix the code compares.
calc_today_vwap_from_15m(bars_15) ==
    IF bars_15 = <<>>
    THEN None
    ELSE
    LET last_date == bars_15[Len(bars_15)].date
        counted == SelectSeq(bars_15, LAMBDA b : b.date = last_date /\ b.volume > 0)
        total_pv == SumSeq([i \in 1..Len(counted) |-> counted[i].close * counted[i].volume])
        total_vol == SumSeq([i \in 1..Len(counted) |-> counted[i].volume])
    IN  IF total_vol <= 0 THEN None ELSE Some(RoundDiv(total_pv, total_vol))

\* A combination that follows the 15m grade alone.
_combine_intraday_signals_FineWins(sig_15, sig_1h) ==
    <<sig_15, IF sig_15 = sig_1h THEN "both" ELSE "15m only">>

\* _combine_intraday_signals(sig_15, sig_1h): <<combined grade, comment theme>>.
_combine_intraday_signals(sig_15, sig_1h) ==
    IF sig_15 = sig_1h
    THEN IF sig_15 = "B" THEN <<"B", "both B">>
         ELSE IF sig_15 = "D" THEN <<"D", "both D">>
         ELSE <<"C", "both C">>
    ELSE IF sig_15 = "B" /\ sig_1h = "C" THEN <<"B", "15m up, 1h neutral">>
    ELSE IF sig_15 = "C" /\ sig_1h = "B" THEN <<"B", "1h up, 15m pullback">>
    ELSE IF sig_15 = "D" /\ sig_1h = "C" THEN <<"D", "15m weak, 1h neutral">>
    ELSE IF sig_15 = "C" /\ sig_1h = "D" THEN <<"D", "1h weak, 15m bounce">>
    ELSE IF sig_15 = "B" /\ sig_1h = "D" THEN <<"C", "15m up, 1h down">>
    ELSE IF sig_15 = "D" /\ sig_1h = "B" THEN <<"C", "1h up, 15m pullback, wait">>
    ELSE <<"C", "diverging">>

\* ---------------------------------------------------------------- price bands
RECURSIVE SortAsc(_)
\* sorted(S) for a finite set of integers
SortAsc(S) ==
    IF S = {} THEN <<>>
    ELSE LET m == CHOOSE x \in S : \A y \in S : x <= y
         IN  <<m>> \o SortAsc(S \ {m})

Reverse(s) == [i \in 1..Len(s) |-> s[Len(s) + 1 - i]]
Take(s, n) == SubSeq(s, 1, Min(n, Len(s)))

\* The Fibonacci ratios 0.382, 0.5, 0.618 in thousandths.
FibRatios == {382, 500, 618}

\* _uniq_sorted(levels) before the sort: round(x, 4) of the positive levels,
\* as a set.  A level is kept as its numerator over 1000, which holds every
\* product the code forms exactly.
_uniq_sorted(levels) == {RoundDiv(x, 1000) : x \in {y \in levels : y > 0}}

\* The candidate pools of compute_price_bands for a cost > 0, deduplicated:
\* defense_all and offense_all after _uniq_sorted, as sets of prices (1e-4).
band_pools(cost, last_price, ema20, recent_low, recent_high) ==
    LET c == Val(cost)
        pct_def == {c * (1000 - p) : p \in {50, 100, 150}}
        pct_off == {c * (1000 + p) : p \in {50, 100, 150, 200}}
        low_def == IF ~IsNone(recent_low) /\ Val(recent_low) > 0
                   THEN {Val(recent_low) * 1000} ELSE {}
        high_off == IF ~IsNone(recent_high) /\ Val(recent_high) > 0
                    THEN {Val(recent_high) * 1000} ELSE {}
        both == ~IsNone(recent_low) /\ ~IsNone(recent_high)
                /\ Val(recent_high) > Val(recent_low)
        fib_def == IF both /\ c > Val(recent_low)
                   THEN {lv \in {c * 1000 - (c - Val(recent_low)) * r : r \in FibRatios} : lv > 0}
                   ELSE {}
        fib_off == IF both /\ Val(recent_high) > c
                   THEN {lv \in {c * 1000 + (Val(recent_high) - c) * r : r \in FibRatios} : lv > 0}
                        \cup {c * 1000 + (Val(recent_high) - c) * 1000}
                   ELSE {}
        ema_def == IF ~IsNone(ema20) /\ Val(ema20) > 0 /\ Val(ema20) < c
                   THEN {Val(ema20) * 1000} ELSE {}
        ema_off == IF ~IsNone(ema20) /\ Val(ema20) > 0 /\ Val(ema20) > c
                   THEN {Val(ema20) * 1000} ELSE {}
        defense_candidates == pct_def \cup low_def \cup fib_def \cup ema_def
        offense_candidates == pct_off \cup high_off \cup fib_off \cup ema_off
    IN  [defense |-> _uniq_sorted({lv \in defense_candidates : lv < c * 1000}),
         offense |-> _uniq_sorted({lv \in offense_candidates : lv > c * 1000})]

\* A selection of the three lowest levels of the pool.
defense_picked_Farthest(pool) == Take(SortAsc(pool), 3)

\* defense_picked = defense_sorted_desc[:3]
defense_picked(pool) == Take(Reverse(SortAsc(pool)), 3)

\* offense_picked = offense_sorted_asc[:4]
offense_picked(pool) == Take(SortAsc(pool), 4)

\* compute_price_bands(cost, last_price, ema20, recent_low, recent_high), all
\* Optional prices in 1e-4 units.  The result is None or Some of the two
\* ladders, in units of 0.01 (round(x, 2)).
compute_price_bands(cost, last_price, ema20, recent_low, recent_high) ==
    IF IsNone(cost) \/ Val(cost) <= 0
    THEN None
    ELSE
    LET pools == band_pools(cost, last_price, ema20, recent_low, recent_high)
        nearest == defense_picked(pools.defense)
        asc == SortAsc({nearest[i] : i \in 1..Len(nearest)})
        defense == [i \in 1..Len(asc) |-> RoundDiv(asc[i], 100)]
        picked == offense_picked(pools.offense)
        offense == [i \in 1..Len(picked) |-> RoundDiv(picked[i], 100)]
    IN  IF defense = <<>> \/ offense = <<>>
        THEN None
        ELSE Some([defense |-> defense, offense |-> offense])

\* Band fields that are stored, as empty lists, also when there are no bands.
BandFields_Always(bands) ==
    IF IsNone(bands) THEN [bands_defense |-> <<>>, bands_offense |-> <<>>]
    ELSE [bands_defense |-> Val(bands).defense, bands_offense |-> Val(bands).offense]

\* info["bands_defense"], info["bands_offense"] when bands is not None
BandFields(bands) ==
    IF IsNone(bands) THEN <<>>
    ELSE [bands_defense |-> Val(bands).defense, bands_offense |-> Val(bands).offense]

\* ---------------------------------------------------------------- per-symbol processing
\* The rest of _process_intraday_symbol once the two classifier results r15
\* and r1h (<<grade, info>>), the VWAP and the swing <<low, high>> are known:
\* [status |-> "raised"] for the KeyError of info["last_close"] when the 15m
\* classifier gave no metrics, else [status |-> "stored", info |-> the dict
\* stored in signals[symbol]].  intraday_comment is <<theme of the
\* combination, VWAP qualifier>>.
IntradayInfo(symbol, cost, r15, r1h, vwap, hl) ==
    LET sig_15 == r15[1]
        info_15 == r15[2]
        sig_1h == r1h[1]
        info_1h == r1h[2]
        comb == _combine_intraday_signals(sig_15, sig_1h)
        has_close == "last_close" \in DOMAIN info_15
        bias == IF ~IsNone(vwap) /\ has_close
                THEN IF info_15.last_close * 1000 > Val(vwap) * (1000 + ThresholdPermille)
                     THEN "above VWAP"
                     ELSE IF info_15.last_close * 1000 < Val(vwap) * (1000 - ThresholdPermille)
                     THEN "below VWAP"
                     ELSE "near VWAP"
                ELSE "no qualifier"
    IN  IF ~has_close
        THEN [status |-> "raised"]
        ELSE
        LET pnl_pct == calc_pnl_pct(info_15.last_close, cost)
            info == BandFields(compute_price_bands(cost, Some(info_15.last_close),
                                                   Some(info_15.ma20), hl[1], hl[2])) @@
                    [signal |-> comb[1],
                     signal_15m |-> sig_15,
                     signal_1h |-> sig_1h,
                     reason |-> info_15.reason,
                     reason_15m |-> info_15.reason,
                     reason_1h |-> info_1h.reason,
                     intraday_comment |-> <<comb[2], bias>>,
                     vwap |-> vwap,
                     cost |-> cost,
                     pnl_pct |-> pnl_pct,
                     action |-> <<decide_action(comb[1], pnl_pct)>>,
                     ema20 |-> Some(info_15.ma20),
                     last_price |-> Some(info_15.last_close),
                     symbol |-> symbol,
                     last_time |-> info_15.last_time,
                     last_close |-> Some(info_15.last_close),
                     last_vol |-> info_15.last_vol,
                     ma20 |-> Some(info_15.ma20),
                     vol20 |-> Some(info_15.vol20)]
        IN  [status |-> "stored", info |-> info]

\* A processing step in which a close above the VWAP band makes the grade "B".
_process_intraday_symbol_VwapDecides(symbol, bars_15, bars_1h, cost) ==
    IF bars_15 = <<>> /\ bars_1h = <<>>
    THEN [status |-> "nodata"]
    ELSE LET r == IntradayInfo(symbol, cost,
                      IF bars_15 # <<>> THEN generate_bcd_signal(symbol, bars_15)
                      ELSE <<"C", [reason |-> "no 15m data"]>>,
                      IF bars_1h # <<>> THEN generate_bcd_signal(symbol, bars_1h)
                      ELSE <<"C", [reason |-> "no 1h data"]>>,
                      IF bars_15 # <<>> THEN calc_today_vwap_from_15m(bars_15) ELSE None,
                      IF bars_1h # <<>> THEN get_recent_high_low(bars_1h, MaxLookback)
                      ELSE get_recent_high_low(bars_15, MaxLookback))
         IN  IF r.status = "stored" /\ r.info.intraday_comment[2] = "above VWAP"
             THEN [r EXCEPT !.info.signal = "B"]
             ELSE r

\* _process_intraday_symbol(symbol) on the buffers and cost it reads:
\* [status |-> "nodata"] for the early return, else as IntradayInfo.
_process_intraday_symbol(symbol, bars_15, bars_1h, cost) ==
    IF bars_15 = <<>> /\ bars_1h = <<>>
    THEN [status |-> "nodata"]
    ELSE IntradayInfo(symbol, cost,
                      IF bars_15 # <<>> THEN generate_bcd_signal(symbol, bars_15)
                      ELSE <<"C", [reason |-> "no 15m data"]>>,
                      IF bars_1h # <<>> THEN generate_bcd_signal(symbol, bars_1h)
                      ELSE <<"C", [reason |-> "no 1h data"]>>,
                      IF bars_15 # <<>> THEN calc_today_vwap_from_15m(bars_15) ELSE None,
                      IF bars_1h # <<>> THEN get_recent_high_low(bars_1h, MaxLookback)
                      ELSE get_recent_high_low(bars_15, MaxLookback))

\* What the indicator-rules collaborator may answer for a non-empty daily
\* series: calc_tech_indicators gives nothing, or named fields (Optional
\* prices) that classify_bcd_signal grades.
DailyCollaboratorOutcomes ==
    { [indicators |-> None, signal |-> "C", tech_comment |-> "none"],
      [indicators |-> Some([last_close |-> Some(11000), close |-> None,
                            ema20 |-> Some(10800), ema50 |-> Some(10500),
                            ema200 |-> Some(10000), vol20 |-> Some(50)]),
       signal |-> "B", tech_comment |-> "trend up"],
      [indicators |-> Some([last_close |-> None, close |-> Some(9000),
                            ema20 |-> Some(9200), ema50 |-> Some(9500),
                            ema200 |-> None, vol20 |-> None]),
       signal |-> "D", tech_comment |-> "short history"] }

\* The collaborator is asked in daily mode only.
CollaboratorAnswers(m) ==
    IF m = "daily" THEN DailyCollaboratorOutcomes
    ELSE {[indicators |-> None, signal |-> "C", tech_comment |-> "none"]}

\* A trend label that counts equal horizons as ordered.
DailyTrend_NonStrict(ema20, ema50, ema200) ==
    IF ~IsNone(ema20) /\ ~IsNone(ema50) /\ ~IsNone(ema200)
    THEN IF Val(ema20) >= Val(ema50) /\ Val(ema50) >= Val(ema200) THEN "uptrend"
         ELSE IF Val(ema20) <= Val(ema50) /\ Val(ema50) <= Val(ema200) THEN "downtrend"
         ELSE "range"
    ELSE "range"

\* The trend label of _process_daily_symbol from the three EMA horizons.
DailyTrend(ema20, ema50, ema200) ==
    IF ~IsNone(ema20) /\ ~IsNone(ema50) /\ ~IsNone(ema200)
    THEN IF Val(ema20) > Val(ema50) /\ Val(ema50) > Val(ema200) THEN "uptrend"
         ELSE IF Val(ema20) < Val(ema50) /\ Val(ema50) < Val(ema200) THEN "downtrend"
         ELSE "range"
    ELSE "range"

\* The rest of _process_daily_symbol once the collaborator gave indicators
\* and the swing <<low, high>> of the series is known: the dict it stores.
DailyInfo(symbol, cost, shares, answer, hl) ==
    LET indicators == Val(answer.indicators)
        signal == answer.signal
        last_close == IF IsNone(indicators.last_close) THEN indicators.close
                      ELSE indicators.last_close
        ema20 == indicators.ema20
        ema50 == indicators.ema50
        ema200 == indicators.ema200
        trend_desc == DailyTrend(ema20, ema50, ema200)
        pos_value == IF ~IsNone(shares) /\ ~IsNone(last_close)
                     THEN Some(RoundDiv(Val(last_close) * Val(shares), 100))
                     ELSE None
        pnl_pct == IF ~IsNone(last_close) THEN calc_pnl_pct(Val(last_close), cost) ELSE None
        fib_levels == IF ~IsNone(hl[1]) /\ ~IsNone(hl[2]) /\ Val(hl[2]) > Val(hl[1])
                      THEN SortAsc({RoundDiv(Val(hl[1]) * 1000 + (Val(hl[2]) - Val(hl[1])) * r, 1000)
                                    : r \in FibRatios})
                      ELSE <<>>
    IN  BandFields(compute_price_bands(cost, last_close, ema20, hl[1], hl[2])) @@
        [symbol |-> symbol,
         signal |-> signal,
         last_close |-> last_close,
         last_price |-> last_close,
         ema20 |-> ema20,
         ma20 |-> ema20,
         ma50 |-> ema50,
         ma200 |-> ema200,
         vol20 |-> indicators.vol20,
         daily_trend |-> trend_desc,
         tech_comment |-> answer.tech_comment,
         shares |-> shares,
         position_value |-> pos_value,
         cost |-> cost,
         pnl_pct |-> pnl_pct,
         action |-> <<decide_action(signal, pnl_pct), trend_desc, answer.tech_comment>>,
         fib_levels |-> fib_levels]

\* _process_daily_symbol(symbol) on the buffer, cost and shares it reads and
\* the collaborator's answer: "nodata", "noindicators" or "stored".
_process_daily_symbol(symbol, bars, cost, shares, answer) ==
    IF bars = <<>>
    THEN [status |-> "nodata"]
    ELSE IF IsNone(answer.indicators)
    THEN [status |-> "noindicators"]
    ELSE [status |-> "stored",
          info |-> DailyInfo(symbol, cost, shares, answer,
                             get_recent_high_low(bars, MaxLookback))]

\* The placeholder error() stores for a symbol without security definition.
PlaceholderInfo(symbol, cost) ==
    [symbol |-> symbol,
     signal |-> "-",
     last_close |-> Some(0),
     last_price |-> Some(0),
     last_vol |-> 0,
     ema20 |-> Some(0),
     vol20 |-> Some(0),
     cost |-> cost,
     pnl_pct |-> None,
     action |-> <<"no history: only ordinary stocks are analysed">>,
     reason |-> "No security definition"]

\* ---------------------------------------------------------------- state
VARIABLES
    mode,             \* self.mode
    watchlist,        \* self.watchlist
    position_costs,   \* self.position_costs
    position_shares,  \* self.position_shares
    reqid_map,        \* self.reqid_map: reqId -> [symbol, tf]
    expected_tfs,     \* self.expected_tfs
    completed_tfs,    \* self.completed_tfs
    bars_15m,         \* self.bars_15m
    bars_1h,          \* self.bars_1h
    bars_1d,          \* self.bars_1d
    signals,          \* self.signals
    current_index,    \* self.current_index
    connected,        \* isConnected()
    issued,           \* reqHistoricalData calls made, per reqId
    process_calls,    \* invocations of _process_*_symbol, per symbol
    outcome,          \* how the last such invocation ended, per symbol
    rejected,         \* symbols whose code-200 error took the fallback
    summaries,        \* times completion was reported (print_summary, ...)
    timers,           \* threading.Timer(2.0, _disconnect_safely) pending
    disconnect_calls, \* invocations of _disconnect_safely
    phase,            \* provider: "init", "positions", "history"
    last_error,       \* "uncorrelated" when the last step was an error callback whose
                      \* token is in no reqid_map entry, else "none"
    pump,             \* the thread of app.run: "running" or "dead"
    main,             \* the loop of main(): "polling" or "exited"
    call,             \* the function applied last on its own, with its arguments
    result            \* what that application returned

vars == <<mode, watchlist, position_costs, position_shares, reqid_map, expected_tfs,
          completed_tfs, bars_15m, bars_1h, bars_1d, signals, current_index, connected,
          issued, process_calls, outcome, rejected, summaries, timers, disconnect_calls,
          phase, last_error, pump, main, call, result>>

\* The fields of the app object (and what is recorded about its calls) as one
\* value, so that a method is an operator from such a value to the next.
\* raised: an exception is propagating out of the callback.
Cur ==
    [mode |-> mode, watchlist |-> watchlist, position_costs |-> position_costs,
     position_shares |-> position_shares, reqid_map |-> reqid_map,
     expected_tfs |-> expected_tfs, completed_tfs |-> completed_tfs,
     bars_15m |-> bars_15m, bars_1h |-> bars_1h, bars_1d |-> bars_1d,
     signals |-> signals, current_index |-> current_index, connected |-> connected,
     issued |-> issued, process_calls |-> process_calls, outcome |-> outcome,
     rejected |-> rejected, summaries |-> summaries, timers |-> timers,
     disconnect_calls |-> disconnect_calls, raised |-> FALSE]

Commit(s) ==
    /\ mode' = s.mode
    /\ watchlist' = s.watchlist
    /\ position_costs' = s.position_costs
    /\ position_shares' = s.position_shares
    /\ reqid_map' = s.reqid_map
    /\ expected_tfs' = s.expected_tfs
    /\ completed_tfs' = s.completed_tfs
    /\ bars_15m' = s.bars_15m
    /\ bars_1h' = s.bars_1h
    /\ bars_1d' = s.bars_1d
    /\ signals' = s.signals
    /\ current_index' = s.current_index
    /\ connected' = s.connected
    /\ issued' = s.issued
    /\ process_calls' = s.process_calls
    /\ outcome' = s.outcome
    /\ rejected' = s.rejected
    /\ summaries' = s.summaries
    /\ timers' = s.timers
    /\ disconnect_calls' = s.disconnect_calls
    /\ UNCHANGED <<call, result>>

\* ---------------------------------------------------------------- methods
\* A disconnect that also drops the results.
_disconnect_safely_DropsResults(s) ==
    [s EXCEPT !.disconnect_calls = @ + 1, !.connected = FALSE, !.signals = <<>>]

\* _disconnect_safely(): self.disconnect()
_disconnect_safely(s) ==
    [s EXCEPT !.disconnect_calls = @ + 1, !.connected = FALSE]

\* reqHistoricalData(reqId, ...) together with the reqid_map entry before it
Request(s, symbol, tf, reqId) ==
    [s EXCEPT !.reqid_map = Put(@, reqId, [symbol |-> symbol, tf |-> tf]),
              !.issued = Put(@, reqId, Get(@, reqId, 0) + 1)]

\* A request step that asks for the 15 minute bars only in intraday mode.
request_next_symbol_history_OneRequest(s) ==
    IF s.current_index >= Len(s.watchlist)
    THEN s
    ELSE
    LET symbol == s.watchlist[s.current_index + 1]
    IN  IF s.mode = "intraday"
        THEN Request([s EXCEPT !.expected_tfs = Put(@, symbol, {"15m", "1h"})],
                     symbol, "15m", req_id_base + s.current_index * 10 + 1)
        ELSE Request([s EXCEPT !.expected_tfs = Put(@, symbol, {"1d"})],
                     symbol, "1d", req_id_base + s.current_index * 10 + 9)

\* request_next_symbol_history()
request_next_symbol_history(s) ==
    IF s.current_index >= Len(s.watchlist)
    THEN s
    ELSE
    LET symbol == s.watchlist[s.current_index + 1]
    IN  IF s.mode = "intraday"
        THEN Request(Request([s EXCEPT !.expected_tfs = Put(@, symbol, {"15m", "1h"})],
                             symbol, "15m", req_id_base + s.current_index * 10 + 1),
                     symbol, "1h", req_id_base + s.current_index * 10 + 2)
        ELSE Request([s EXCEPT !.expected_tfs = Put(@, symbol, {"1d"})],
                     symbol, "1d", req_id_base + s.current_index * 10 + 9)

\* expected is set and expected.issubset(done), as both _try_* methods test it
AllComplete(s, symbol) ==
    LET expected == Get(s.expected_tfs, symbol, {})
        done == Get(s.completed_tfs, symbol, {})
    IN  expected # {} /\ expected \subseteq done

\* What _try_process_symbol leaves once _process_*_symbol ended as r: the
\* call is counted, a result is stored, an exception propagates.
Processed(s, symbol, r) ==
    LET s1 == [s EXCEPT !.process_calls = Put(@, symbol, Get(@, symbol, 0) + 1),
                        !.outcome = Put(@, symbol, r.status)]
    IN  IF r.status = "stored"
        THEN [s1 EXCEPT !.signals = Put(@, symbol, r.info)]
        ELSE IF r.status = "raised"
        THEN [s1 EXCEPT !.raised = TRUE]
        ELSE s1

\* dict.get(symbol) as an Optional
Lookup(d, k) == IF k \in DOMAIN d THEN Some(d[k]) ELSE None

\* _try_process_symbol(symbol); answer is what the indicator-rules
\* collaborator returns if it is asked.
_try_process_symbol(s, symbol, answer) ==
    IF symbol \in DOMAIN s.signals
    THEN s
    ELSE IF ~AllComplete(s, symbol)
    THEN s
    ELSE IF s.mode = "intraday"
    THEN Processed(s, symbol,
                   _process_intraday_symbol(symbol, Get(s.bars_15m, symbol, <<>>),
                                            Get(s.bars_1h, symbol, <<>>),
                                            Lookup(s.position_costs, symbol)))
    ELSE Processed(s, symbol,
                   _process_daily_symbol(symbol, Get(s.bars_1d, symbol, <<>>),
                                         Lookup(s.position_costs, symbol),
                                         Lookup(s.position_shares, symbol), answer))

\* _print_brief_symbol_bands unpacks bands_defense into 3 names and
\* bands_offense into 4: ValueError for a stored ladder of another length.
\* print_detailed_strategies calls it for every watchlist symbol with a
\* result other than the placeholder.
ReportRaises(s) ==
    \E i \in 1..Len(s.watchlist) :
        /\ s.watchlist[i] \in DOMAIN s.signals
        /\ s.signals[s.watchlist[i]].signal # "-"
        /\ Get(s.signals[s.watchlist[i]], "reason", "") # "No security definition"
        /\ ~IsNone(s.signals[s.watchlist[i]].cost)
        /\ "bands_defense" \in DOMAIN s.signals[s.watchlist[i]]
        /\ \/ Len(s.signals[s.watchlist[i]].bands_defense) # 3
           \/ Len(s.signals[s.watchlist[i]].bands_offense) # 4

\* The else branch of _try_advance_after_symbol: print_summary(),
\* save_csv_report(), print_detailed_strategies(), and then, unless the
\* latter raised, threading.Timer(2.0, self._disconnect_safely).start().
ReportCompletion(s) ==
    IF ReportRaises(s)
    THEN [s EXCEPT !.summaries = @ + 1, !.raised = TRUE]
    ELSE [s EXCEPT !.summaries = @ + 1, !.timers = @ + 1]

\* _try_advance_after_symbol without the test that the symbol's expected
\* timeframes are all complete.
_try_advance_after_symbol_NoCompleteCheck(s, symbol) ==
    IF s.current_index < Len(s.watchlist) /\ s.watchlist[s.current_index + 1] = symbol
    THEN IF s.current_index + 1 < Len(s.watchlist)
         THEN request_next_symbol_history([s EXCEPT !.current_index = @ + 1])
         ELSE ReportCompletion([s EXCEPT !.current_index = @ + 1])
    ELSE s

\* _try_advance_after_symbol without the test that the symbol is the current
\* one of the watchlist.
_try_advance_after_symbol_AnySymbol(s, symbol) ==
    IF ~AllComplete(s, symbol)
    THEN s
    ELSE IF s.current_index < Len(s.watchlist)
    THEN IF s.current_index + 1 < Len(s.watchlist)
         THEN request_next_symbol_history([s EXCEPT !.current_index = @ + 1])
         ELSE ReportCompletion([s EXCEPT !.current_index = @ + 1])
    ELSE s

\* _try_advance_after_symbol(symbol)
_try_advance_after_symbol(s, symbol) ==
    IF ~AllComplete(s, symbol)
    THEN s
    ELSE IF s.current_index < Len(s.watchlist) /\ s.watchlist[s.current_index + 1] = symbol
    THEN IF s.current_index + 1 < Len(s.watchlist)
         THEN request_next_symbol_history([s EXCEPT !.current_index = @ + 1])
         ELSE ReportCompletion([s EXCEPT !.current_index = @ + 1])
    ELSE s

\* A completion mark that replaces the completed set by the one timeframe.
MarkComplete_Replaces(s, symbol, tf) ==
    [s EXCEPT !.completed_tfs = Put(@, symbol, {tf})]

\* completed_tfs.setdefault(symbol, set()).add(tf)
MarkComplete(s, symbol, tf) ==
    [s EXCEPT !.completed_tfs = Put(@, symbol, Get(@, symbol, {}) \cup {tf})]

\* error() without self.signals[symbol] = info.
error_NoPlaceholder(s, reqId, errorCode) ==
    IF errorCode = 200 /\ reqId \in DOMAIN s.reqid_map
    THEN LET symbol == s.reqid_map[reqId].symbol
             tf == s.reqid_map[reqId].tf
         IN  _try_advance_after_symbol(
                 MarkComplete([s EXCEPT !.rejected = @ \cup {symbol}], symbol, tf),
                 symbol)
    ELSE s

\* error() that takes a code-200 error with an unknown token to be about the
\* current symbol.
error_AnyToken(s, reqId, errorCode) ==
    IF errorCode = 200 /\ (reqId \in DOMAIN s.reqid_map \/ s.current_index < Len(s.watchlist))
    THEN LET symbol == IF reqId \in DOMAIN s.reqid_map THEN s.reqid_map[reqId].symbol
                       ELSE s.watchlist[s.current_index + 1]
             tf == IF reqId \in DOMAIN s.reqid_map THEN s.reqid_map[reqId].tf ELSE "unknown"
             info == PlaceholderInfo(symbol, Lookup(s.position_costs, symbol))
         IN  _try_advance_after_symbol(
                 MarkComplete([s EXCEPT !.signals = Put(@, symbol, info),
                                        !.rejected = @ \cup {symbol}],
                              symbol, tf),
                 symbol)
    ELSE s

\* error(reqId, errorCode, errorString)
error(s, reqId, errorCode) ==
    IF errorCode = 200 /\ reqId \in DOMAIN s.reqid_map
    THEN LET symbol == s.reqid_map[reqId].symbol
             tf == s.reqid_map[reqId].tf
             info == PlaceholderInfo(symbol, Lookup(s.position_costs, symbol))
         IN  _try_advance_after_symbol(
                 MarkComplete([s EXCEPT !.signals = Put(@, symbol, info),
                                        !.rejected = @ \cup {symbol}],
                              symbol, tf),
                 symbol)
    ELSE s

\* position(account, contract, position, avgCost)
position(s, secType, symbol, pos, avgCost) ==
    IF secType # "STK"
    THEN s
    ELSE IF Abs(pos) = 0
    THEN s
    ELSE [s EXCEPT !.position_costs = Put(@, symbol, avgCost),
                   !.position_shares = Put(@, symbol, pos)]

\* positionEnd() without the test for an empty watchlist.
positionEnd_NoEmptyCheck(s) ==
    request_next_symbol_history([s EXCEPT !.watchlist = SortedKeys(s.position_costs),
                                          !.current_index = 0])

\* positionEnd()
positionEnd(s) ==
    IF SortedKeys(s.position_costs) = <<>>
    THEN _disconnect_safely([s EXCEPT !.watchlist = <<>>])
    ELSE request_next_symbol_history([s EXCEPT !.watchlist = SortedKeys(s.position_costs),
                                               !.current_index = 0])

\* A bar callback that files every bar under the 15 minute buffer.
historicalData_OneBuffer(s, reqId, bar) ==
    IF reqId \notin DOMAIN s.reqid_map
    THEN s
    ELSE [s EXCEPT !.bars_15m = Put(@, s.reqid_map[reqId].symbol,
                                    Append(Get(@, s.reqid_map[reqId].symbol, <<>>), bar))]

\* historicalData(reqId, bar)
historicalData(s, reqId, bar) ==
    IF reqId \notin DOMAIN s.reqid_map
    THEN s
    ELSE LET symbol == s.reqid_map[reqId].symbol
             tf == s.reqid_map[reqId].tf
         IN  IF tf = "15m"
             THEN [s EXCEPT !.bars_15m = Put(@, symbol, Append(Get(@, symbol, <<>>), bar))]
             ELSE IF tf = "1h"
             THEN [s EXCEPT !.bars_1h = Put(@, symbol, Append(Get(@, symbol, <<>>), bar))]
             ELSE IF tf = "1d"
             THEN [s EXCEPT !.bars_1d = Put(@, symbol, Append(Get(@, symbol, <<>>), bar))]
             ELSE s

\* The last line of historicalDataEnd, which an exception raised by the line
\* before it skips.
AdvanceUnlessRaised(s, symbol) ==
    IF s.raised THEN s ELSE _try_advance_after_symbol(s, symbol)

\* historicalDataEnd(reqId, start, end)
historicalDataEnd(s, reqId, answer) ==
    IF reqId \notin DOMAIN s.reqid_map
    THEN s
    ELSE LET symbol == s.reqid_map[reqId].symbol
             tf == s.reqid_map[reqId].tf
         IN  AdvanceUnlessRaised(
                 _try_process_symbol(MarkComplete(s, symbol, tf), symbol, answer),
                 symbol)

\* ---------------------------------------------------------------- actions
TotalBars(s) ==
    LET n(d) == SumSeq([i \in 1..Len(AllSymbols) |-> Len(Get(d, AllSymbols[i], <<>>))])
    IN  n(s.bars_15m) + n(s.bars_1h) + n(s.bars_1d)

\* app.run() delivers callbacks while its thread lives: it is a daemon thread,
\* so it ends with the process, once main() has returned and no timer is left.
PumpRuns == pump = "running" /\ (main = "polling" \/ timers > 0)

\* A callback that returns normally leaves the threads as they are; one that
\* raises either ends app.run() (whose finally clause disconnects) or is
\* swallowed by the message loop.
Deliver(s) ==
    /\ PumpRuns
    /\ \E t \in {s} :
           \/ /\ Commit(t)
              /\ pump' = pump
           \/ /\ t.raised
              /\ Commit([t EXCEPT !.connected = FALSE])
              /\ pump' = "dead"
    /\ UNCHANGED main

\* Deliver, for the callbacks that the bounds of the model limit.
DeliverWithin(s) ==
    \E t \in {s} :
        /\ TotalBars(t) <= MaxBarEvents
        /\ \A sym \in DOMAIN t.process_calls : t.process_calls[sym] <= MaxProcessCalls
        /\ Deliver(t)

Init ==
    /\ mode \in Modes
    /\ watchlist = <<>>
    /\ position_costs = <<>>
    /\ position_shares = <<>>
    /\ reqid_map = <<>>
    /\ expected_tfs = <<>>
    /\ completed_tfs = <<>>
    /\ bars_15m = <<>>
    /\ bars_1h = <<>>
    /\ bars_1d = <<>>
    /\ signals = <<>>
    /\ current_index = 0
    /\ connected = TRUE
    /\ issued = <<>>
    /\ process_calls = <<>>
    /\ outcome = <<>>
    /\ rejected = {}
    /\ summaries = 0
    /\ timers = 0
    /\ disconnect_calls = 0
    /\ phase = "init"
    /\ last_error = "none"
    /\ pump = "running"
    /\ main = "polling"
    /\ call = [fn |-> "none"]
    /\ result = <<>>

\* nextValidId(orderId): reqPositions()
NextValidId ==
    /\ phase = "init"
    /\ phase' = "positions"
    /\ last_error' = "none"
    /\ Deliver(Cur)

\* The provider streams the position snapshot before it ends it.
Position ==
    /\ phase = "positions"
    /\ \E r \in PositionReports :
           Deliver(position(Cur, r.secType, r.symbol, r.position, r.avgCost))
    /\ last_error' = "none"
    /\ UNCHANGED phase

\* The provider ends the position snapshot once.
PositionEnd ==
    /\ phase = "positions"
    /\ phase' = "history"
    /\ last_error' = "none"
    /\ Deliver(positionEnd(Cur))

HistoricalData ==
    /\ \E reqId \in ReqIds(mode), bar \in ProviderBars :
           DeliverWithin(historicalData(Cur, reqId, bar))
    /\ last_error' = "none"
    /\ UNCHANGED phase

HistoricalDataEnd ==
    /\ \E reqId \in ReqIds(mode), answer \in CollaboratorAnswers(mode) :
           DeliverWithin(historicalDataEnd(Cur, reqId, answer))
    /\ last_error' = "none"
    /\ UNCHANGED phase

Error ==
    /\ \E reqId \in ReqIds(mode), errorCode \in ErrorCodes :
           /\ Deliver(error(Cur, reqId, errorCode))
           /\ last_error' = IF reqId \in DOMAIN reqid_map THEN "none" ELSE "uncorrelated"
    /\ UNCHANGED phase

\* The thread of threading.Timer(2.0, self._disconnect_safely) runs.
TimerFire ==
    /\ timers > 0
    /\ Commit(_disconnect_safely([Cur EXCEPT !.timers = @ - 1]))
    /\ last_error' = "none"
    /\ UNCHANGED <<phase, pump, main>>

\* KeyboardInterrupt in the loop of main(): _disconnect_safely(), then return.
Interrupt ==
    /\ main = "polling"
    /\ Commit(_disconnect_safely(Cur))
    /\ main' = "exited"
    /\ last_error' = "none"
    /\ UNCHANGED <<phase, pump>>

\* while app.isConnected(): sleep -- the loop ends once disconnected.
MainExit ==
    /\ main = "polling"
    /\ ~connected
    /\ main' = "exited"
    /\ Commit(Cur)
    /\ last_error' = "none"
    /\ UNCHANGED <<phase, pump>>

Next ==
    \/ NextValidId
    \/ Position
    \/ PositionEnd
    \/ HistoricalData
    \/ HistoricalDataEnd
    \/ Error
    \/ TimerFire
    \/ Interrupt
    \/ MainExit

Spec == Init /\ [][Next]_vars

\* ---------------------------------------------------------------- properties
\* The fields of the app object: what the orchestrator owns.
core == <<watchlist, position_costs, position_shares, reqid_map, expected_tfs,
          completed_tfs, bars_15m, bars_1h, bars_1d, signals, current_index>>

\* The symbol at Python index i of the watchlist.
SymbolAt(i) == watchlist[i + 1]

\* The tokens of the requests of the symbol at Python index i in this run.
TokensAt(i) == {req_id_base + i * 10 + k : k \in TokenDigits(mode)}

Complete(symbol) == AllComplete(Cur, symbol)

IsPlaceholder(info) ==
    /\ info.signal = "-"
    /\ info.last_close = Some(0)
    /\ info.last_price = Some(0)
    /\ info.last_vol = 0
    /\ info.ema20 = Some(0)
    /\ info.vol20 = Some(0)
    /\ info.pnl_pct = None
    /\ info.reason = "No security definition"

\* C1 (as claimed): for every symbol _try_process_symbol invokes
\* _process_intraday_symbol / _process_daily_symbol at most once, only when
\* its completed set covers its expected set, and (unless the error fallback
\* stored the placeholder instead) once as soon as it does.
C1_ReadyFiresExactlyOnce ==
    \A sym \in Symbols :
        LET n == Get(process_calls, sym, 0)
        IN  /\ n <= 1
            /\ (n = 1 => Complete(sym))
            /\ (Complete(sym) /\ sym \notin rejected => n = 1)

\* C2 (as claimed): a result that Ready -> Processed stored in signals is
\* never changed or replaced by a later step.
C2_ProcessedIsTerminal ==
    [][\A sym \in DOMAIN signals :
           signals[sym].signal # "-"
               => sym \in DOMAIN signals' /\ signals'[sym] = signals[sym]]_vars

\* C3: once completion is reported, every watchlist symbol whose code-200
\* error took the fallback holds the placeholder (signal "-", zeroed metrics,
\* no pnl, reason "No security definition"), and the requests of every
\* symbol after it have been issued.
C3_RejectedSymbolHasPlaceholder ==
    summaries > 0 =>
        \A i \in 0..(Len(watchlist) - 1) :
            SymbolAt(i) \in rejected =>
                /\ SymbolAt(i) \in DOMAIN signals
                /\ IsPlaceholder(signals[SymbolAt(i)])
                /\ \A j \in (i + 1)..(Len(watchlist) - 1) : TokensAt(j) \subseteq DOMAIN issued

\* C3 witness: completion was reported in a run whose first symbol was
\* rejected and is followed by another symbol.
C3_Witness ==
    /\ summaries > 0
    /\ Len(watchlist) = 2
    /\ SymbolAt(0) \in rejected
    /\ SymbolAt(1) \in DOMAIN signals
    /\ signals[SymbolAt(1)].signal # "-"

\* C4 (as claimed): the step in which the code-200 fallback first runs for
\* the current symbol moves the sequencer past that symbol.
C4_RejectionAdvances ==
    [][\A sym \in Symbols :
           /\ sym \notin rejected
           /\ sym \in rejected'
           /\ current_index < Len(watchlist)
           /\ SymbolAt(current_index) = sym
           => current_index' = current_index + 1]_vars

\* C5 (as claimed): in every state, an error callback whose code is not 200
\* and whose token is in reqid_map stores the placeholder for the token's
\* symbol and marks the token's timeframe complete.
C5_CorrelatedErrorFallsBack ==
    \A reqId \in DOMAIN reqid_map :
        \A errorCode \in ErrorCodes \ {200} :
            LET after == error(Cur, reqId, errorCode)
                sym == reqid_map[reqId].symbol
            IN  /\ sym \in DOMAIN after.signals
                /\ IsPlaceholder(after.signals[sym])
                /\ reqid_map[reqId].tf \in Get(after.completed_tfs, sym, {})

\* C6: a step that is an error callback with a token in no reqid_map entry
\* changes no field of the orchestrator and issues no request.
C6_UncorrelatedErrorChangesNothing ==
    [][last_error' = "uncorrelated" => UNCHANGED <<core, issued, summaries, timers>>]_vars

\* C6 witness: an uncorrelated error was just handled while requests were
\* pending and a result was stored.
C6_Witness ==
    /\ last_error = "uncorrelated"
    /\ reqid_map # <<>>
    /\ signals # <<>>
    /\ current_index < Len(watchlist)

\* A symbol is in flight: requested, and an expected timeframe is not complete.
InFlight(sym) == sym \in DOMAIN expected_tfs /\ ~Complete(sym)

\* C7: at most one symbol is in flight; no symbol beyond current_index has a
\* request issued; and a symbol's requests are issued only once the symbol
\* before it is complete.
C7_OneSymbolInFlight ==
    /\ Cardinality({sym \in Symbols : InFlight(sym)}) <= 1
    /\ \A i \in 0..(Len(watchlist) - 1) :
           /\ i > current_index => TokensAt(i) \cap DOMAIN issued = {}
           /\ (i > 0 /\ TokensAt(i) \cap DOMAIN issued # {}) => Complete(SymbolAt(i - 1))

\* C7 witness: the second symbol is in flight after the first completed.
C7_Witness ==
    /\ Len(watchlist) = 2
    /\ current_index = 1
    /\ InFlight(SymbolAt(1))
    /\ Complete(SymbolAt(0))
    /\ Get(completed_tfs, SymbolAt(1), {}) # {}

\* C8 (as claimed): a step that moves the sequencer past a symbol leaves a
\* result for that symbol in signals.
C8_AdvanceOnlyWithResult ==
    [][current_index' > current_index => SymbolAt(current_index) \in DOMAIN signals']_vars

\* C9 (as claimed): in intraday mode, a step that processes a symbol whose
\* 15m series has at most 4 bars and whose 1h series has at least one ends
\* with a neutral result stored and the sequencer advanced.
C9_InsufficientHistoryNotFatal ==
    [][\A sym \in Symbols :
           /\ mode = "intraday"
           /\ Get(process_calls', sym, 0) > Get(process_calls, sym, 0)
           /\ Len(Get(bars_15m, sym, <<>>)) < MinBars
           /\ Len(Get(bars_1h, sym, <<>>)) >= 1
           => /\ outcome'[sym] = "stored"
              /\ sym \in DOMAIN signals'
              /\ signals'[sym].signal = "C"
              /\ current_index' = current_index + 1]_vars

DailyPositionReports ==
    { [secType |-> "STK", symbol |-> "A", position |-> 10, avgCost |-> 10000],
      [secType |-> "STK", symbol |-> "A", position |-> 10, avgCost |-> 1],
      [secType |-> "STK", symbol |-> "B", position |-> 10, avgCost |-> 10000] }

\* The collaborator's answers that carry indicators.
IndicatorAnswers == {a \in DailyCollaboratorOutcomes : ~IsNone(a.indicators)}

InitDaily == Init /\ mode = "daily"

DailyPosition ==
    /\ phase = "positions"
    /\ \E r \in DailyPositionReports :
           Deliver(position(Cur, r.secType, r.symbol, r.position, r.avgCost))
    /\ last_error' = "none"
    /\ UNCHANGED phase

\* A bar for A's pending request.
ProviderBar ==
    /\ \E reqId \in DOMAIN reqid_map, bar \in ProviderBars :
           /\ reqid_map[reqId].symbol = "A"
           /\ InFlight("A")
           /\ DeliverWithin(historicalData(Cur, reqId, bar))
    /\ last_error' = "none"
    /\ UNCHANGED phase

\* The completion of A's pending request, after its bars.
ProviderEnd ==
    /\ \E reqId \in DOMAIN reqid_map, answer \in IndicatorAnswers :
           /\ reqid_map[reqId].symbol = "A"
           /\ InFlight("A")
           /\ Get(bars_1d, "A", <<>>) # <<>>
           /\ Deliver(historicalDataEnd(Cur, reqId, answer))
    /\ last_error' = "none"
    /\ UNCHANGED phase

\* The code-200 error for B's pending request.
ProviderReject ==
    /\ \E reqId \in DOMAIN reqid_map :
           /\ reqid_map[reqId].symbol = "B"
           /\ InFlight("B")
           /\ Deliver(error(Cur, reqId, 200))
    /\ last_error' = "none"
    /\ UNCHANGED phase

NextDaily ==
    \/ NextValidId
    \/ DailyPosition
    \/ PositionEnd
    \/ ProviderBar
    \/ ProviderEnd
    \/ ProviderReject
    \/ TimerFire
    \/ MainExit

\* The provider delivers what it owes, the pump thread hands every callback
\* to the app, the timer thread and the loop of main() get to run.
SpecDaily ==
    /\ InitDaily
    /\ [][NextDaily]_vars
    /\ WF_vars(NextValidId)
    /\ WF_vars(PositionEnd)
    /\ WF_vars(ProviderBar)
    /\ WF_vars(ProviderEnd)
    /\ WF_vars(ProviderReject)
    /\ WF_vars(TimerFire)
    /\ WF_vars(MainExit)

\* A holds a result of _process_daily_symbol whose trend label is uptrend
\* when EMA20 > EMA50 > EMA200, B holds the placeholder.
DailyResultsStored ==
    /\ "A" \in DOMAIN signals
    /\ signals["A"].signal # "-"
    /\ (/\ ~IsNone(signals["A"].ema20) /\ ~IsNone(signals["A"].ma50)
        /\ ~IsNone(signals["A"].ma200)
        /\ Val(signals["A"].ema20) > Val(signals["A"].ma50)
        /\ Val(signals["A"].ma50) > Val(signals["A"].ma200))
       => signals["A"].daily_trend = "uptrend"
    /\ "B" \in DOMAIN signals
    /\ IsPlaceholder(signals["B"])

\* Every step of a daily run uses up something bounded (the snapshot, a
\* pending request, the bars, the timer, the loop of main), so under the
\* fairness of SpecDaily the run reaches a state where no step is owed any
\* more, and what it eventually does is what holds there.
DailyRunOver ==
    /\ ~(PumpRuns /\ phase # "history")
    /\ ~(PumpRuns /\ InFlight("A") /\ TotalBars(Cur) < MaxBarEvents)
    /\ ~(PumpRuns /\ InFlight("A") /\ Get(bars_1d, "A", <<>>) # <<>>)
    /\ ~(PumpRuns /\ InFlight("B"))
    /\ timers = 0
    /\ ~(main = "polling" /\ ~connected)

C12_DisconnectedExactlyOnce ==
    /\ disconnect_calls <= 1
    /\ (summaries = 1 /\ timers = 0 /\ pump = "running") => disconnect_calls >= 1

\* C13 (as claimed): a symbol with an entry in signals has every expected
\* timeframe marked complete.
C13_NoPartialResult ==
    \A sym \in Symbols : sym \in DOMAIN signals => Complete(sym)

\* C14: once the position snapshot has ended with no stock position, the
\* watchlist is empty, _disconnect_safely has been invoked, no history
\* request was issued or is pending, and completion is not reported.
C14_EmptyWatchlistEndsRun ==
    (phase = "history" /\ position_costs = <<>>) =>
        /\ watchlist = <<>>
        /\ disconnect_calls >= 1
        /\ ~connected
        /\ issued = <<>>
        /\ reqid_map = <<>>
        /\ expected_tfs = <<>>
        /\ summaries = 0
        /\ timers = 0

\* C14 witness: the snapshot ended empty and a later error callback was
\* handled before the loop of main() ended.
C14_Witness ==
    /\ phase = "history"
    /\ position_costs = <<>>
    /\ disconnect_calls = 1
    /\ last_error = "uncorrelated"

\* ---------------------------------------------------------------- the functions on their own
\* The module-level functions and the per-symbol processing steps read only
\* their arguments, so each is applied here to inputs of its own.

\* Bars before the last two of a generated series.
MaxFill == 24

\* The session before the last one, and the last one.
Days == {20240101, 20240102}
Today == 20240102

\* An ordinary bar of day d.
FillBar(d) == [date |-> d, close |-> 10000, high |-> 10100, low |-> 9900, volume |-> 10]
\* An old bar far from the others in price and volume.
OutlierBar == [date |-> 20240101, close |-> 20000, high |-> 20100, low |-> 19900, volume |-> 1000]
\* The bar before the last: a quiet one and an ordinary one.
PrevBars(d) ==
    {[date |-> d, close |-> 10000, high |-> 10100, low |-> 9900, volume |-> v] : v \in {7, 10}}
\* The last bar: falling, flat or rising, on no, light, threshold or heavy volume.
LastBars ==
    {[date |-> Today, close |-> c, high |-> c + 100, low |-> c - 100, volume |-> v] :
        c \in {9900, 10000, 10100}, v \in {0, 12, 13, 14}}

BarSeries(outlier, k, d, p, l) ==
    (IF outlier THEN <<OutlierBar>> ELSE <<>>) \o [i \in 1..k |-> FillBar(d)] \o <<p, l>>

\* List[BarData] arguments of generate_bcd_signal.
ClassifierInputs ==
    {<<>>} \cup {<<l>> : l \in LastBars}
    \cup UNION {{BarSeries(o, k, d, p, l) : p \in PrevBars(d), l \in LastBars} :
                   o \in BOOLEAN, k \in 0..MaxFill, d \in Days}

\* The buffers _process_intraday_symbol may find for a symbol.
BufferInputs ==
    {<<>>} \cup {<<l>> : l \in LastBars}
    \cup UNION {{BarSeries(FALSE, 3, d, p, l) : p \in PrevBars(d), l \in LastBars} : d \in Days}

\* The EMA horizons calc_tech_indicators may report.
EmaInputs == {None, Some(9900), Some(10000), Some(10100)}

\* Average costs (1e-4) and the optional references of compute_price_bands.
CostInputs == {None, Some(-10000), Some(0), Some(1), Some(10), Some(10000), Some(1000000)}
LastPriceInputs == {None, Some(10000)}
TrendRefInputs == {None, Some(9800), Some(10200)}
SwingLowInputs == {None, Some(9000), Some(9510), Some(9996)}
SwingHighInputs == {None, Some(11000)}

app == <<mode, watchlist, position_costs, position_shares, reqid_map, expected_tfs,
         completed_tfs, bars_15m, bars_1h, bars_1d, signals, current_index, connected,
         issued, process_calls, outcome, rejected, summaries, timers, disconnect_calls,
         phase, last_error, pump, main>>

InitFunctions == Init /\ mode = "intraday"

\* Each behaviour applies one function to one input.
Fresh == call.fn = "none"

Classify ==
    /\ Fresh
    /\ \E bars \in ClassifierInputs :
           /\ call' = [fn |-> "generate_bcd_signal", bars |-> bars]
           /\ result' = generate_bcd_signal("A", bars)
    /\ UNCHANGED app

Combine ==
    /\ Fresh
    /\ \E sig_15 \in {"B", "C", "D"}, sig_1h \in {"B", "C", "D"} :
           /\ call' = [fn |-> "_combine_intraday_signals", sig_15 |-> sig_15, sig_1h |-> sig_1h]
           /\ result' = _combine_intraday_signals(sig_15, sig_1h)
    /\ UNCHANGED app

ProcessIntraday ==
    /\ Fresh
    /\ \E b15 \in BufferInputs, b1h \in BufferInputs, cost \in {None, Some(0), Some(10000)} :
           /\ call' = [fn |-> "_process_intraday_symbol", bars_15 |-> b15, bars_1h |-> b1h,
                       cost |-> cost]
           /\ result' = _process_intraday_symbol("A", b15, b1h, cost)
    /\ UNCHANGED app

ProcessDaily ==
    /\ Fresh
    /\ \E e20 \in EmaInputs, e50 \in EmaInputs, e200 \in EmaInputs,
          cost \in {None, Some(0), Some(10000)} :
           /\ call' = [fn |-> "_process_daily_symbol", ema20 |-> e20, ema50 |-> e50,
                       ema200 |-> e200, cost |-> cost]
           /\ result' = _process_daily_symbol("A", <<FillBar(Today)>>, cost, Some(10),
                            [indicators |-> Some([last_close |-> Some(10000), close |-> None,
                                                  ema20 |-> e20, ema50 |-> e50, ema200 |-> e200,
                                                  vol20 |-> Some(10)]),
                             signal |-> "C", tech_comment |-> "none"])
    /\ UNCHANGED app

Bands ==
    /\ Fresh
    /\ \E cost \in CostInputs, last_price \in LastPriceInputs, ema20 \in TrendRefInputs,
          recent_low \in SwingLowInputs, recent_high \in SwingHighInputs :
           /\ call' = [fn |-> "compute_price_bands", cost |-> cost, last_price |-> last_price,
                       ema20 |-> ema20, recent_low |-> recent_low, recent_high |-> recent_high]
           /\ result' = compute_price_bands(cost, last_price, ema20, recent_low, recent_high)
    /\ UNCHANGED app

\* Steps 1-5 of compute_price_bands up to the selection: the pools and
\* what is picked from them, before the presentation rounding.
SelectBands ==
    /\ Fresh
    /\ \E cost \in {c \in CostInputs : c # None /\ Val(c) > 0}, ema20 \in TrendRefInputs,
          recent_low \in SwingLowInputs, recent_high \in SwingHighInputs :
           /\ call' = [fn |-> "compute_price_bands: selection", cost |-> cost, ema20 |-> ema20,
                       recent_low |-> recent_low, recent_high |-> recent_high]
           /\ result' = [defense_pool |-> band_pools(cost, None, ema20, recent_low, recent_high).defense,
                         offense_pool |-> band_pools(cost, None, ema20, recent_low, recent_high).offense,
                         defense_picked |-> defense_picked(
                             band_pools(cost, None, ema20, recent_low, recent_high).defense),
                         offense_picked |-> offense_picked(
                             band_pools(cost, None, ema20, recent_low, recent_high).offense)]
    /\ UNCHANGED app

NextFunctions ==
    \/ Classify
    \/ Combine
    \/ ProcessIntraday
    \/ ProcessDaily
    \/ Bands
    \/ SelectBands

SpecFunctions == InitFunctions /\ [][NextFunctions]_vars

\* ---------------------------------------------------------------- properties of the functions
\* C15: for every bar sequence with fewer than 5 bars, the empty one included,
\* generate_bcd_signal returns the grade "C" with the insufficient-data
\* rationale and nothing else, never "B" or "D".
C15_ShortSeriesIsNeutral ==
    (call.fn = "generate_bcd_signal" /\ Len(call.bars) < 5)
        => /\ result[1] = "C"
           /\ result[2] = [reason |-> "too few bars"]

\* A series of four bars whose last bar rises on heavy volume was classified.
C15_Witness ==
    /\ call.fn = "generate_bcd_signal"
    /\ Len(call.bars) = 4
    /\ call.bars[4].close > call.bars[3].close
    /\ call.bars[4].volume > call.bars[3].volume
    /\ result[1] = "C"

\* The grade the rule of the classifier gives a series of at least 5 bars:
\* MAref and VOLref are the averages of close and volume over the last
\* min(20, window) bars of the window of the last 25 bars at most, and the
\* last volume has to exceed VOLref*1.3.  Averages are compared cross-multiplied.
RuleGrade(bars) ==
    LET window == IF Len(bars) > 25 THEN SubSeq(bars, Len(bars) - 24, Len(bars)) ELSE bars
        n == IF Len(window) < 20 THEN Len(window) ELSE 20
        ref == SubSeq(window, Len(window) - n + 1, Len(window))
        sum_close == SumSeq([i \in 1..n |-> ref[i].close])
        sum_volume == SumSeq([i \in 1..n |-> ref[i].volume])
        last == bars[Len(bars)]
        prev == bars[Len(bars) - 1]
        heavy == last.volume * 10 * n > sum_volume * 13
    IN  IF last.close * 1000 * n > sum_close * 1002 /\ last.close > prev.close /\ heavy
        THEN "B"
        ELSE IF last.close * 1000 * n < sum_close * 998 /\ last.close < prev.close /\ heavy
        THEN "D"
        ELSE "C"

\* C16: for every bar sequence of at least 5 bars the grade is "B" iff last
\* close > MAref*1.002, last close > previous close and last volume strictly
\* exceeds VOLref*1.3; "D" iff last close < MAref*0.998, last close <
\* previous close and last volume strictly exceeds VOLref*1.3; "C" otherwise,
\* in particular when the last volume equals VOLref*1.3.
C16_StrictVolumeRule ==
    (call.fn = "generate_bcd_signal" /\ Len(call.bars) >= 5)
        => result[1] = RuleGrade(call.bars)

\* A series of 21 bars, the oldest outside the averages, whose last bar rises
\* above MAref*1.002 on a volume equal to VOLref*1.3 was graded "B".
C16_Witness ==
    /\ call.fn = "generate_bcd_signal"
    /\ Len(call.bars) = 21
    /\ call.bars[1] = OutlierBar
    /\ call.bars[21].volume * 10 * 20 = SumSeq([i \in 1..20 |-> call.bars[i + 1].volume]) * 13
    /\ result[1] = "B"

\* The precedence table of the two timeframe grades: equal grades give that
\* grade, a neutral side gives the other side's grade, and bullish with
\* defensive gives neutral.  It is symmetric in its arguments.
TableGrade(x, y) ==
    IF x = y THEN x
    ELSE IF x = "C" THEN y
    ELSE IF y = "C" THEN x
    ELSE "C"

\* C17: for all 9 pairs of (15m, 1h) grades the combined grade is the one of
\* the precedence table -- combine(X, X) = X, "B" with "C" in either order
\* gives "B", "D" with "C" in either order gives "D", "B" with "D" in either
\* order gives "C" -- so it is the same for a pair and for the swapped pair.
C17_CombinationTable ==
    call.fn = "_combine_intraday_signals"
        => /\ result[1] = TableGrade(call.sig_15, call.sig_1h)
           /\ result[1] = _combine_intraday_signals(call.sig_1h, call.sig_15)[1]

\* A defensive 15m grade was combined with a bullish 1h grade into neutral.
C17_Witness ==
    /\ call.fn = "_combine_intraday_signals"
    /\ call.sig_15 = "D"
    /\ call.sig_1h = "B"
    /\ result[1] = "C"

\* The grade of one timeframe as _process_intraday_symbol obtains it.
TimeframeGrade(bars) == IF bars = <<>> THEN "C" ELSE generate_bcd_signal("A", bars)[1]

\* C18: whatever the VWAP outcome (close above the band, below it, inside it,
\* or no VWAP), the signal _process_intraday_symbol stores is the precedence
\* table's combination of the two timeframe grades; the qualifier is part of
\* the comment only.
C18_VwapNeverChangesGrade ==
    (call.fn = "_process_intraday_symbol" /\ result.status = "stored")
        => /\ result.info.signal
                  = TableGrade(TimeframeGrade(call.bars_15), TimeframeGrade(call.bars_1h))
           /\ result.info.intraday_comment[2]
                  \in {"above VWAP", "below VWAP", "near VWAP", "no qualifier"}

\* A symbol whose 15m close is below the VWAP band, with a neutral 15m grade
\* and a bullish 1h grade, was stored as bullish.
C18_Witness ==
    /\ call.fn = "_process_intraday_symbol"
    /\ result.status = "stored"
    /\ result.info.intraday_comment[2] = "below VWAP"
    /\ result.info.signal_15m = "C"
    /\ result.info.signal_1h = "B"
    /\ result.info.signal = "B"

\* C19: the daily trend label is "uptrend" iff EMA20 > EMA50 > EMA200,
\* "downtrend" iff EMA20 < EMA50 < EMA200, and "range" in every other case,
\* ties and an absent horizon included.
C19_TrendFromOrdering ==
    (call.fn = "_process_daily_symbol" /\ result.status = "stored")
        => LET present == call.ema20 # <<>> /\ call.ema50 # <<>> /\ call.ema200 # <<>>
               up == present /\ call.ema20[1] > call.ema50[1] /\ call.ema50[1] > call.ema200[1]
               down == present /\ call.ema20[1] < call.ema50[1] /\ call.ema50[1] < call.ema200[1]
           IN  /\ (result.info.daily_trend = "uptrend") <=> up
               /\ (result.info.daily_trend = "downtrend") <=> down
               /\ (result.info.daily_trend = "range") <=> (~up /\ ~down)

\* A symbol with EMA20 = EMA50 > EMA200 was labelled range-bound.
C19_Witness ==
    /\ call.fn = "_process_daily_symbol"
    /\ result.status = "stored"
    /\ call.ema20 # <<>> /\ call.ema50 = call.ema20 /\ call.ema200 # <<>>
    /\ call.ema50[1] > call.ema200[1]
    /\ result.info.daily_trend = "range"

\* C20: whatever the cost > 0 and the optional last price, trend reference,
\* swing low and swing high, compute_price_bands returns None or a ladder of
\* exactly 3 defense levels and exactly 4 offense levels.
C20_NoPartialLadder ==
    (call.fn = "compute_price_bands" /\ result # <<>>)
        => /\ Len(result[1].defense) = 3
           /\ Len(result[1].offense) = 4

\* For a cost of one ten-thousandth a ladder of one defense level was returned.
C20_Witness ==
    /\ call.fn = "compute_price_bands"
    /\ call.cost = <<1>>
    /\ result # <<>>
    /\ Len(result[1].defense) = 1

\* s[1] <= s[2] <= ... for a sequence of numbers
Ascending(s) == \A i \in 1..(Len(s) - 1) : s[i] <= s[i + 1]

\* C21: in every result of compute_price_bands, as output after the rounding
\* to 2 decimals, each defense level is strictly below cost, each offense
\* level is strictly above cost, and each sequence is ascending.
C21_LaddersOnTheirSideOfCost ==
    (call.fn = "compute_price_bands" /\ result # <<>>)
        => /\ \A i \in 1..Len(result[1].defense) : result[1].defense[i] * 100 < call.cost[1]
           /\ \A i \in 1..Len(result[1].offense) : result[1].offense[i] * 100 > call.cost[1]
           /\ Ascending(result[1].defense)
           /\ Ascending(result[1].offense)

\* For a cost of 1.00 and a swing low of 0.9996 a ladder whose highest defense
\* level is 1.00 was returned.
C21_Witness ==
    /\ call.fn = "compute_price_bands"
    /\ call.cost = <<10000>>
    /\ call.recent_low = <<9996>>
    /\ result # <<>>
    /\ result[1].defense[Len(result[1].defense)] = 100

\* C22: with cost > 0, a swing low in [cost*0.95, cost) and neither swing
\* high nor trend reference, compute_price_bands returns None or a defense
\* ladder of exactly 3 pairwise distinct values.
C22_SwingLowInPercentagePool ==
    (/\ call.fn = "compute_price_bands"
     /\ call.cost # <<>> /\ call.cost[1] > 0
     /\ call.recent_low # <<>>
     /\ call.recent_low[1] * 100 >= call.cost[1] * 95
     /\ call.recent_low[1] < call.cost[1]
     /\ call.recent_high = <<>>
     /\ call.ema20 = <<>>
     /\ result # <<>>)
        => /\ Len(result[1].defense) = 3
           /\ \A i, j \in 1..Len(result[1].defense) :
                  i # j => result[1].defense[i] # result[1].defense[j]

\* For a cost of 1.00 and a swing low of 0.951 alone, a defense ladder that
\* holds 0.95 twice was returned.
C22_Witness ==
    /\ call.fn = "compute_price_bands"
    /\ call.cost = <<10000>>
    /\ call.recent_low = <<9510>>
    /\ call.recent_high = <<>>
    /\ call.ema20 = <<>>
    /\ result # <<>>
    /\ result[1].defense = <<90, 95, 95>>

\* The elements of a sequence.
Range(s) == {s[i] : i \in 1..Len(s)}

\* C23: from the deduplicated pool below cost the 3 highest levels are
\* picked, from the pool above cost the 4 lowest: every level of a pool that
\* was not picked lies farther from cost than every picked level of its side.
C23_NearestLevelsSelected ==
    call.fn = "compute_price_bands: selection"
        => /\ Range(result.defense_picked) \subseteq result.defense_pool
           /\ Cardinality(Range(result.defense_picked))
                  = Min(3, Cardinality(result.defense_pool))
           /\ \A x \in result.defense_pool \ Range(result.defense_picked) :
                  \A y \in Range(result.defense_picked) : x < y
           /\ Range(result.offense_picked) \subseteq result.offense_pool
           /\ Cardinality(Range(result.offense_picked))
                  = Min(4, Cardinality(result.offense_pool))
           /\ \A x \in result.offense_pool \ Range(result.offense_picked) :
                  \A y \in Range(result.offense_picked) : x > y

\* The selection was made from pools of five defense and more than four
\* offense levels: the Fibonacci level 0.9618 was picked, 0.85 was not.
C23_Witness ==
    /\ call.fn = "compute_price_bands: selection"
    /\ call.cost = <<10000>>
    /\ Cardinality(result.defense_pool) = 5
    /\ Cardinality(result.offense_pool) > 4
    /\ 9618 \in Range(result.defense_picked)
    /\ 8500 \in result.defense_pool \ Range(result.defense_picked)

\* C24: with no swing low, no swing high and no trend reference the ladders
\* are the percentage offsets cost*(0.85, 0.90, 0.95) and cost*(1.05, 1.10,
\* 1.15, 1.20) to 2 decimals; for cost = 100 they are 85.00, 90.00, 95.00
\* and 105.00, 110.00, 115.00, 120.00.
C24_DefaultPercentageLadders ==
    (/\ call.fn = "compute_price_bands"
     /\ call.cost # <<>> /\ call.cost[1] > 0
     /\ call.ema20 = <<>> /\ call.recent_low = <<>> /\ call.recent_high = <<>>)
        => /\ result # <<>>
           /\ result[1].defense = [i \in 1..3 |-> RoundDiv(call.cost[1] * (80 + 5 * i), 10000)]
           /\ result[1].offense = [i \in 1..4 |-> RoundDiv(call.cost[1] * (100 + 5 * i), 10000)]
           /\ call.cost[1] = 1000000
                  => /\ result[1].defense = <<8500, 9000, 9500>>
                     /\ result[1].offense = <<10500, 11000, 11500, 12000>>

\* For cost = 100 and no optional input the ladders 85, 90, 95 and 105,
\* 110, 115, 120 were returned.
C24_Witness ==
    /\ call.fn = "compute_price_bands"
    /\ call.cost = <<1000000>>
    /\ call.ema20 = <<>> /\ call.recent_low = <<>> /\ call.recent_high = <<>>
    /\ result = <<[defense |-> <<8500, 9000, 9500>>, offense |-> <<10500, 11000, 11500, 12000>>]>>

\* C25: compute_price_bands returns None whenever cost is missing or <= 0,
\* whatever the other inputs, and the result a processing step stores for a
\* symbol with such a cost has no bands_defense and no bands_offense field.
C25_NoBandsWithoutCost ==
    /\ (call.fn = "compute_price_bands" /\ (call.cost = <<>> \/ call.cost[1] <= 0))
           => result = <<>>
    /\ (/\ call.fn \in {"_process_intraday_symbol", "_process_daily_symbol"}
        /\ result.status = "stored"
        /\ (call.cost = <<>> \/ call.cost[1] <= 0))
           => /\ "bands_defense" \notin DOMAIN result.info
              /\ "bands_offense" \notin DOMAIN result.info

\* An intraday result was stored for a symbol whose average cost is 0.
C25_Witness ==
    /\ call.fn = "_process_intraday_symbol"
    /\ call.cost = <<0>>
    /\ result.status = "stored"
    /\ result.info.cost = <<0>>
    /\ "bands_defense" \notin DOMAIN result.info

\* ---------------------------------------------------------------- a live position subscription
\* reqPositions() is never cancelled, so the provider goes on reporting a
\* position whenever it changes, also after it has ended the snapshot.
LatePositionReports ==
    { [secType |-> "STK", symbol |-> "A", position |-> 20, avgCost |-> 12000] }

InitSubscribed == Init /\ mode = "daily"

LatePosition ==
    /\ phase = "history"
    /\ \E r \in LatePositionReports :
           Deliver(position(Cur, r.secType, r.symbol, r.position, r.avgCost))
    /\ last_error' = "none"
    /\ UNCHANGED phase

NextSubscribed ==
    \/ NextValidId
    \/ Position
    \/ PositionEnd
    \/ LatePosition
    \/ HistoricalData
    \/ HistoricalDataEnd
    \/ Error
    \/ TimerFire
    \/ Interrupt
    \/ MainExit

SpecSubscribed == InitSubscribed /\ [][NextSubscribed]_vars

\* C26: once positionEnd has been handled, no step changes position_costs,
\* position_shares or the watchlist.
C26_PositionsFrozenAfterSnapshot ==
    [][phase = "history" => UNCHANGED <<position_costs, position_shares, watchlist>>]_vars

\* A position callback after the snapshot ended gave a watched symbol another
\* average cost than the snapshot had.
C26_Witness ==
    /\ phase = "history"
    /\ watchlist = <<"A">>
    /\ position_costs = [x \in {"A"} |-> 12000]

\* ---------------------------------------------------------------- properties of the requests
\* The bar buffer of a (symbol, timeframe) pair.
Buffer(symbol, tf) ==
    IF tf = "15m" THEN Get(bars_15m, symbol, <<>>)
    ELSE IF tf = "1h" THEN Get(bars_1h, symbol, <<>>)
    ELSE Get(bars_1d, symbol, <<>>)

\* The completion callback, or the error fallback, of the token was handled.
Retired(reqId) ==
    /\ reqId \in DOMAIN reqid_map
    /\ reqid_map[reqId].tf \in Get(completed_tfs, reqid_map[reqId].symbol, {})

\* C27: once the completion callback or the error fallback of a token has
\* been handled, no step changes the bar buffer that token fills, and once
\* this holds of all the tokens of a symbol no step changes its completed
\* set or its result.
C27_RetiredTokenIgnored ==
    [][\A reqId \in DOMAIN reqid_map :
           Retired(reqId)
               => LET symbol == reqid_map[reqId].symbol
                  IN  /\ Buffer(symbol, reqid_map[reqId].tf)' = Buffer(symbol, reqid_map[reqId].tf)
                      /\ (Complete(symbol) /\ symbol \in DOMAIN signals)
                             => /\ symbol \in DOMAIN signals'
                                /\ signals'[symbol] = signals[symbol]
                                /\ completed_tfs'[symbol] = completed_tfs[symbol]]_vars

\* The result stored for a symbol by its processing step was replaced by the
\* placeholder of a later error callback.
C27_Witness ==
    /\ "A" \in DOMAIN outcome
    /\ outcome["A"] = "stored"
    /\ "A" \in DOMAIN signals
    /\ signals["A"].signal = "-"

\* The timeframes a run of the mode asks for.
ModeTimeframes == IF mode = "intraday" THEN {"15m", "1h"} ELSE {"1d"}

\* The tokens under which requests for the symbol were issued.
TokensOf(symbol) == {reqId \in DOMAIN issued : reqid_map[reqId].symbol = symbol}

\* C28: a symbol that has an expected set expects exactly the timeframes of
\* the mode ({15m, 1h} intraday, {1d} daily) and has exactly one request
\* issued per expected timeframe, each once; a symbol without an expected
\* set has no request, no buffer, no completed set and no result.  No state
\* has only part of a symbol's requests issued.
C28_RequestsFixedByMode ==
    \A symbol \in Symbols :
        IF symbol \in DOMAIN expected_tfs
        THEN /\ expected_tfs[symbol] = ModeTimeframes
             /\ {reqid_map[reqId].tf : reqId \in TokensOf(symbol)} = ModeTimeframes
             /\ Cardinality(TokensOf(symbol)) = Cardinality(ModeTimeframes)
             /\ \A reqId \in TokensOf(symbol) : issued[reqId] = 1
        ELSE /\ TokensOf(symbol) = {}
             /\ \A reqId \in DOMAIN reqid_map : reqid_map[reqId].symbol # symbol
             /\ symbol \notin DOMAIN completed_tfs
             /\ symbol \notin DOMAIN signals
             /\ symbol \notin (DOMAIN bars_15m \cup DOMAIN bars_1h \cup DOMAIN bars_1d)

\* An intraday run issued the two requests of each of its two symbols.
C28_Witness ==
    /\ mode = "intraday"
    /\ DOMAIN expected_tfs = {"A", "B"}
    /\ Cardinality(DOMAIN issued) = 4

\* The (symbol, timeframe) pairs a run can have buffers for.
Pairs == Symbols \X {"15m", "1h", "1d"}

C30_SingleWriter ==
    [][/\ (TimerFire \/ Interrupt \/ MainExit) => UNCHANGED core
       /\ core' # core => PumpRuns]_vars

\* The grace-delay timer has fired and the foreground loop was interrupted
\* in a run that holds results.
C30_Witness ==
    /\ summaries = 1
    /\ timers = 0
    /\ disconnect_calls = 2
    /\ main = "exited"
    /\ signals # <<>>

\* C31: after every step the completed set of every symbol is a subset of
\* its expected set, whether the timeframe was marked by historicalDataEnd
\* or by the error fallback, and no step removes a timeframe from a
\* completed set.
C31_CompletedWithinExpected ==
    [][/\ \A symbol \in DOMAIN completed_tfs' :
              completed_tfs'[symbol] \subseteq Get(expected_tfs', symbol, {})
       /\ \A symbol \in DOMAIN completed_tfs :
              /\ symbol \in DOMAIN completed_tfs'
              /\ completed_tfs[symbol] \subseteq completed_tfs'[symbol]]_vars

\* In an intraday run one timeframe of a symbol was marked complete by the
\* error fallback and the other by its completion callback.
C31_Witness ==
    /\ mode = "intraday"
    /\ "A" \in rejected
    /\ "A" \in DOMAIN completed_tfs
    /\ completed_tfs["A"] = {"15m", "1h"}
    /\ expected_tfs["A"] = {"15m", "1h"}

\* ---------------------------------------------------------------- a repeated end of the snapshot
\* The provider ends the position snapshot a second time.
RepeatedPositionEnd ==
    /\ phase = "history"
    /\ phase' = "history, snapshot ended twice"
    /\ last_error' = "none"
    /\ DeliverWithin(positionEnd(Cur))

NextRepeated ==
    \/ NextValidId
    \/ Position
    \/ PositionEnd
    \/ RepeatedPositionEnd
    \/ HistoricalData
    \/ HistoricalDataEnd
    \/ Error
    \/ TimerFire
    \/ Interrupt
    \/ MainExit

SpecRepeated == InitSubscribed /\ [][NextRepeated]_vars

\* C32: once the position snapshot has ended, a step leaves current_index as
\* it is or increases it by exactly 1, current_index stays within
\* 0..len(watchlist), requests are issued in watchlist order (no request for
\* an index beyond current_index), and each (symbol, timeframe) request is
\* issued at most once, whatever duplicate or late callbacks arrive, a
\* repeated positionEnd included.
C32_SequencerMonotonic ==
    [][phase \notin {"init", "positions"}
           => /\ current_index' \in {current_index, current_index + 1}
              /\ current_index' \in 0..Len(watchlist')
              /\ \A reqId \in DOMAIN issued' :
                     /\ (reqId - req_id_base) \div 10 <= current_index'
                     /\ issued'[reqId] <= 1]_vars

\* After a repeated positionEnd the request of the first symbol was issued
\* a second time.
C32_Witness ==
    /\ phase = "history, snapshot ended twice"
    /\ watchlist = <<"A", "B">>
    /\ (req_id_base + 9) \in DOMAIN issued
    /\ issued[req_id_base + 9] = 2

====
